---- MODULE Spec2Model ----
(***************************************************************************)
(* A model of calculator.py: ExpressionLexer.lex scanned one character at  *)
(* a time, ExpressionParser.parse_expr and the eval methods of the         *)
(* expression classes as recursive operators.                              *)
(*                                                                         *)
(* A Python str is modelled as a sequence of one-character strings, a      *)
(* Token as a record [token_str, token_type], an expression object as a    *)
(* tuple whose first element is its class name.                            *)
(***************************************************************************)
EXTENDS Integers, Sequences, FiniteSets, TLC

VARIABLES string, current_pos, current_type, current_str, result,
          token_list, parsed, value, pc

vars == <<string, current_pos, current_type, current_str, result,
          token_list, parsed, value, pc>>

(***************************************************************************)
(* Bounds of the model.                                                    *)
(***************************************************************************)
MaxLen == 4        \* longest input string of Spec
MaxTokens == 5     \* longest token list of SpecTok
MaxOps == 3        \* most binary operators in a chain of SpecChain

(***************************************************************************)
(* Module-level tables and TokenType.                                      *)
(***************************************************************************)
dot_tokens == {"."}
bracket_tokens == {"(", ")"}
second_priority_tokens == {"*", "/"}
third_priority_tokens == {"+", "-"}

DOT == 1
SIGN == 2
NUMBER == 3
BRACKET == 4
SECOND_PRIORITY_OP == 5
THIRD_PRIORITY_OP == 6
CONSTANT_OR_FUNCTION_NAME == 7

\* Token.__init__
Token(token_str, token_type) ==
    [token_str |-> token_str, token_type |-> token_type]

\* Token.is_left_bracket
is_left_bracket(tok) == tok.token_str = <<"(">>

\* Token.is_right_bracket
is_right_bracket(tok) == tok.token_str = <<")">>

(***************************************************************************)
(* The characters of the model.  str.isnumeric and str.isalpha are the     *)
(* membership tests of the digits and letters that occur in the inputs.    *)
(***************************************************************************)
Digits == {"0", "1", "2", "3", "4", "5", "6", "7", "8", "9"}
Letters == {"a", "b", "f", "i", "n", "o", "s", "x"}
isnumeric(v) == v \in Digits
isalpha(v) == v \in Letters

\* the characters the input strings of Spec are drawn from
Chars == {"2", ".", "x", "+", "-", "*", "/", "(", ")", " "}

(***************************************************************************)
(* ExpressionLexer.lex                                                     *)
(***************************************************************************)
\* a push() whose test is current_type > SIGN, so that it drops a Sign token
push_above_sign(res, type, str) ==
    IF type > SIGN THEN Append(res, Token(str, type)) ELSE res

\* the nested function push(), as the list it leaves in result
push(res, type, str) ==
    IF type > 0 THEN Append(res, Token(str, type)) ELSE res

\* the character read by one iteration of the while loop
v == string[current_pos + 1]

InLoop == pc = "lex" /\ current_pos < Len(string)

LexTail == UNCHANGED <<string, token_list, parsed, value, pc>>

\* if v.isnumeric() or v in dot_tokens
LexNumber ==
    /\ InLoop
    /\ isnumeric(v) \/ v \in dot_tokens
    /\ current_pos' = current_pos + 1
    /\ IF current_type = NUMBER
       THEN /\ current_str' = Append(current_str, v)
            /\ UNCHANGED <<current_type, result>>
       ELSE /\ result' = push(result, current_type, current_str)
            /\ current_str' = <<v>>
            /\ current_type' = NUMBER
    /\ LexTail

\* if v.isalpha()
LexAlpha ==
    /\ InLoop
    /\ ~(isnumeric(v) \/ v \in dot_tokens)
    /\ isalpha(v)
    /\ current_pos' = current_pos + 1
    /\ IF current_type = CONSTANT_OR_FUNCTION_NAME
       THEN /\ current_str' = Append(current_str, v)
            /\ UNCHANGED <<current_type, result>>
       ELSE /\ result' = push(result, current_type, current_str)
            /\ current_str' = <<v>>
            /\ current_type' = CONSTANT_OR_FUNCTION_NAME
    /\ LexTail

\* a classification that looks back for a second-priority operator only
SignOrThird_second_only(res) ==
    IF res = <<>> \/ res[Len(res)].token_type \in {SECOND_PRIORITY_OP}
    THEN SIGN
    ELSE THIRD_PRIORITY_OP

\* the kind given to a '+' or '-' once the open token is pushed onto res
SignOrThird(res) ==
    IF res = <<>> \/ res[Len(res)].token_type \in {SECOND_PRIORITY_OP, THIRD_PRIORITY_OP}
    THEN SIGN
    ELSE THIRD_PRIORITY_OP

\* if v in third_priority_tokens
LexThird ==
    /\ InLoop
    /\ ~(isnumeric(v) \/ v \in dot_tokens)
    /\ ~isalpha(v)
    /\ v \in third_priority_tokens
    /\ current_pos' = current_pos + 1
    /\ LET res == push(result, current_type, current_str)
       IN  result' = push(res, SignOrThird(res), <<v>>)
    /\ current_type' = 0
    /\ current_str' = <<>>
    /\ LexTail

\* if v in second_priority_tokens
LexSecond ==
    /\ InLoop
    /\ ~(isnumeric(v) \/ v \in dot_tokens)
    /\ ~isalpha(v)
    /\ v \notin third_priority_tokens
    /\ v \in second_priority_tokens
    /\ current_pos' = current_pos + 1
    /\ result' = push(push(result, current_type, current_str), SECOND_PRIORITY_OP, <<v>>)
    /\ current_type' = 0
    /\ current_str' = <<>>
    /\ LexTail

\* if v in bracket_tokens
LexBracket ==
    /\ InLoop
    /\ ~(isnumeric(v) \/ v \in dot_tokens)
    /\ ~isalpha(v)
    /\ v \notin third_priority_tokens
    /\ v \notin second_priority_tokens
    /\ v \in bracket_tokens
    /\ current_pos' = current_pos + 1
    /\ result' = push(push(result, current_type, current_str), BRACKET, <<v>>)
    /\ current_type' = 0
    /\ current_str' = <<>>
    /\ LexTail

\* no if of the loop body matches: the loop goes on to the next character
LexOther ==
    /\ InLoop
    /\ ~(isnumeric(v) \/ v \in dot_tokens)
    /\ ~isalpha(v)
    /\ v \notin third_priority_tokens
    /\ v \notin second_priority_tokens
    /\ v \notin bracket_tokens
    /\ current_pos' = current_pos + 1
    /\ UNCHANGED <<current_type, current_str, result>>
    /\ LexTail

\* the push() after the loop, return result, and ExpressionParser(result)
LexReturn ==
    /\ pc = "lex"
    /\ current_pos >= Len(string)
    /\ result' = push(result, current_type, current_str)
    /\ current_type' = 0
    /\ current_str' = <<>>
    /\ token_list' = result'
    /\ pc' = "parse"
    /\ UNCHANGED <<string, current_pos, parsed, value>>

Lex == LexNumber \/ LexAlpha \/ LexThird \/ LexSecond \/ LexBracket \/ LexOther \/ LexReturn

(***************************************************************************)
(* The expression classes.                                                 *)
(***************************************************************************)
NumberExpression(val) == <<"NumberExpression", val>>
BinaryExpression(expr1, op, expr2) == <<"BinaryExpression", expr1, op, expr2>>
ConstantExpression(name) == <<"ConstantExpression", name>>
FunctionExpression(func_name, expr) == <<"FunctionExpression", func_name, expr>>

NoExpression == <<"None">>

(***************************************************************************)
(* ExpressionParser.  A parse method returns (expression, length) or       *)
(* raises; both outcomes are one record.  pos is the 0-based Python index. *)
(***************************************************************************)
Return(expr, length) == [ok |-> TRUE, expr |-> expr, length |-> length, err |-> "None"]
Raise(err) == [ok |-> FALSE, expr |-> NoExpression, length |-> 0, err |-> err]

\* self.token_list[pos] raises IndexError when pos is past the last token
InRange(pos) == pos < Len(token_list)
TokenAt(pos) == token_list[pos + 1]

RECURSIVE parse_first_priority(_)
RECURSIVE parse_expr(_)
RECURSIVE parse_expr_loop(_, _, _)
RECURSIVE parse_third_priority_loop(_, _, _)

\* a sign that takes the whole following expression as its operand
parse_sign_expr(pos) ==
    IF ~InRange(pos) THEN Raise("IndexError")
    ELSE LET r == parse_expr(pos + 1)
         IN  IF ~r.ok THEN r
             ELSE Return(BinaryExpression(NumberExpression(<<"0">>), TokenAt(pos).token_str, r.expr),
                         r.length + 1)

parse_sign(pos) ==
    IF ~InRange(pos) THEN Raise("IndexError")
    ELSE LET r == parse_first_priority(pos + 1)
         IN  IF ~r.ok THEN r
             ELSE Return(BinaryExpression(NumberExpression(<<"0">>), TokenAt(pos).token_str, r.expr),
                         r.length + 1)

parse_number(pos) ==
    IF ~InRange(pos) THEN Raise("IndexError")
    ELSE Return(NumberExpression(TokenAt(pos).token_str), 1)

\* both assert statements test the token at pos, the opening one
parse_bracket(pos) ==
    IF ~InRange(pos) THEN Raise("IndexError")
    ELSE IF TokenAt(pos).token_type # BRACKET THEN Raise("AssertionError")
    ELSE LET r == parse_expr(pos + 1)
         IN  IF ~r.ok THEN r
             ELSE IF TokenAt(pos).token_type # BRACKET THEN Raise("AssertionError")
             ELSE Return(r.expr, r.length + 2)

parse_constant_or_function(pos) ==
    IF ~InRange(pos) THEN Raise("IndexError")
    ELSE LET fn == TokenAt(pos).token_str
         IN  IF pos + 1 = Len(token_list) THEN Return(ConstantExpression(fn), 1)
             ELSE IF is_left_bracket(TokenAt(pos + 1))
                  THEN LET r == parse_bracket(pos + 1)
                       IN  IF ~r.ok THEN r
                           ELSE Return(FunctionExpression(fn, r.expr), 1 + r.length)
                  ELSE Return(ConstantExpression(fn), 1)

\* a dispatch that takes a binary '+' or '-' in operand position as a sign
parse_first_priority_signed(pos) ==
    IF ~InRange(pos) THEN Raise("IndexError")
    ELSE LET current_token == TokenAt(pos)
         IN  IF current_token.token_type = BRACKET THEN parse_bracket(pos)
             ELSE IF current_token.token_type \in {DOT, NUMBER} THEN parse_number(pos)
             ELSE IF current_token.token_type = CONSTANT_OR_FUNCTION_NAME
                  THEN parse_constant_or_function(pos)
             ELSE IF current_token.token_type \in {SIGN, THIRD_PRIORITY_OP} THEN parse_sign(pos)
             ELSE Raise("ValueError")

parse_first_priority(pos) ==
    IF ~InRange(pos) THEN Raise("IndexError")
    ELSE LET current_token == TokenAt(pos)
         IN  IF current_token.token_type = BRACKET THEN parse_bracket(pos)
             ELSE IF current_token.token_type \in {DOT, NUMBER} THEN parse_number(pos)
             ELSE IF current_token.token_type = CONSTANT_OR_FUNCTION_NAME
                  THEN parse_constant_or_function(pos)
             ELSE IF current_token.token_type = SIGN THEN parse_sign(pos)
             ELSE Raise("ValueError")

parse_second_priority(pos, left_expr) ==
    IF ~InRange(pos) THEN Raise("IndexError")
    ELSE LET r == parse_first_priority(pos + 1)
         IN  IF ~r.ok THEN r
             ELSE Return(BinaryExpression(left_expr, TokenAt(pos).token_str, r.expr), r.length + 1)

\* the while loop of parse_third_priority, as (current_expr, current_length)
parse_third_priority_loop(pos, current_expr, current_length) ==
    IF pos + current_length + 1 < Len(token_list)
       /\ TokenAt(current_length + pos + 1).token_type = SECOND_PRIORITY_OP
    THEN LET r == parse_second_priority(current_length + pos + 1, current_expr)
         IN  IF ~r.ok THEN r
             ELSE parse_third_priority_loop(pos, r.expr, current_length + r.length)
    ELSE Return(current_expr, current_length)

\* a third-priority step that takes one operand only, without its '*' '/' run
parse_third_priority_flat(pos, left_expr) ==
    IF ~InRange(pos) THEN Raise("IndexError")
    ELSE LET first == parse_first_priority(pos + 1)
         IN  IF ~first.ok THEN first
             ELSE Return(BinaryExpression(left_expr, TokenAt(pos).token_str, first.expr),
                         first.length + 1)

parse_third_priority(pos, left_expr) ==
    IF ~InRange(pos) THEN Raise("IndexError")
    ELSE LET first == parse_first_priority(pos + 1)
         IN  IF ~first.ok THEN first
             ELSE LET r == parse_third_priority_loop(pos, first.expr, first.length)
                  IN  IF ~r.ok THEN r
                      ELSE Return(BinaryExpression(left_expr, TokenAt(pos).token_str, r.expr),
                                  r.length + 1)

\* the while loop of parse_expr, as (current_expr, current_length)
parse_expr_loop(pos, current_expr, current_length) ==
    IF pos + current_length < Len(token_list)
    THEN LET current_token == TokenAt(current_length + pos)
         IN  IF current_token.token_type = THIRD_PRIORITY_OP
             THEN LET r == parse_third_priority(current_length + pos, current_expr)
                  IN  IF ~r.ok THEN r
                      ELSE parse_expr_loop(pos, r.expr, current_length + r.length)
             ELSE IF current_token.token_type = SECOND_PRIORITY_OP
             THEN LET r == parse_second_priority(current_length + pos, current_expr)
                  IN  IF ~r.ok THEN r
                      ELSE parse_expr_loop(pos, r.expr, current_length + r.length)
             ELSE Return(current_expr, current_length)
    ELSE Return(current_expr, current_length)

parse_expr(pos) ==
    LET first == parse_first_priority(pos)
    IN  IF ~first.ok THEN first
        ELSE parse_expr_loop(pos, first.expr, first.length)

NotParsed == Raise("NotParsed")

(***************************************************************************)
(* Python values.  A float is a rational n/d in lowest terms, an infinity  *)
(* with sign n, or nan; 0.0 and -0.0 are one value (they are equal in      *)
(* Python and division by either raises).  The numerals of the inputs are  *)
(* small integers, so the arithmetic stays exact in double precision       *)
(* within the bounds.                                                      *)
(***************************************************************************)
NoName == <<>>
Finite(n, d) == [kind |-> "float", cls |-> "finite", n |-> n, d |-> d, name |-> NoName, err |-> "None"]
Infinity(sgn) == [kind |-> "float", cls |-> "inf", n |-> sgn, d |-> 0, name |-> NoName, err |-> "None"]
NaN == [kind |-> "float", cls |-> "nan", n |-> 0, d |-> 0, name |-> NoName, err |-> "None"]
BuiltinFunction(name) == [kind |-> "function", cls |-> "None", n |-> 0, d |-> 0, name |-> name, err |-> "None"]
NotImplemented == [kind |-> "NotImplemented", cls |-> "None", n |-> 0, d |-> 0, name |-> NoName, err |-> "None"]
Exception(err) == [kind |-> "error", cls |-> "None", n |-> 0, d |-> 0, name |-> NoName, err |-> err]
NoValue == [kind |-> "None", cls |-> "None", n |-> 0, d |-> 0, name |-> NoName, err |-> "None"]

Abs(x) == IF x < 0 THEN -x ELSE x
Sgn(x) == IF x < 0 THEN -1 ELSE IF x > 0 THEN 1 ELSE 0

RECURSIVE GCD(_, _)
GCD(a, b) == IF b = 0 THEN a ELSE GCD(b, a % b)

\* the float n/d, d # 0, in lowest terms with a positive denominator
Rational(n, d) ==
    LET g == GCD(Abs(n), Abs(d))
    IN  Finite((Sgn(d) * n) \div g, Abs(d) \div g)

IsZero(x) == x.cls = "finite" /\ x.n = 0

\* float(str) of a Number token's text, a run of digits and points
DigitValue(c) == CHOOSE k \in 0..9 : <<"0", "1", "2", "3", "4", "5", "6", "7", "8", "9">>[k + 1] = c

RECURSIVE Pow10(_)
Pow10(k) == IF k = 0 THEN 1 ELSE 10 * Pow10(k - 1)

RECURSIVE DigitsToInt(_)
DigitsToInt(s) ==
    IF s = <<>> THEN 0
    ELSE 10 * DigitsToInt(SubSeq(s, 1, Len(s) - 1)) + DigitValue(s[Len(s)])

float(text) ==
    LET points == {i \in 1..Len(text) : text[i] = "."}
        digits == SelectSeq(text, LAMBDA c : c # ".")
    IN  IF Cardinality(points) > 1 \/ digits = <<>> THEN Exception("ValueError")
        ELSE IF points = {} THEN Rational(DigitsToInt(digits), 1)
        ELSE LET p == CHOOSE i \in points : TRUE
             IN  Rational(DigitsToInt(digits), Pow10(Len(text) - p))

Neg(x) == IF x.cls = "finite" THEN Finite(-x.n, x.d)
          ELSE IF x.cls = "inf" THEN Infinity(-x.n)
          ELSE NaN

\* float.__add__
float_add(x, y) ==
    IF x.cls = "nan" \/ y.cls = "nan" THEN NaN
    ELSE IF x.cls = "inf" /\ y.cls = "inf" THEN (IF x.n = y.n THEN x ELSE NaN)
    ELSE IF x.cls = "inf" THEN x
    ELSE IF y.cls = "inf" THEN y
    ELSE Rational(x.n * y.d + y.n * x.d, x.d * y.d)

\* float.__sub__
float_sub(x, y) == float_add(x, Neg(y))

\* float.__mul__
float_mul(x, y) ==
    IF x.cls = "nan" \/ y.cls = "nan" THEN NaN
    ELSE IF x.cls = "inf" \/ y.cls = "inf"
         THEN (IF IsZero(x) \/ IsZero(y) THEN NaN ELSE Infinity(Sgn(x.n) * Sgn(y.n)))
    ELSE Rational(x.n * y.n, x.d * y.d)

\* a division that follows IEEE-754 at a zero divisor instead of raising
float_truediv_ieee(x, y) ==
    IF x.cls = "nan" \/ y.cls = "nan" THEN NaN
    ELSE IF IsZero(y) THEN (IF IsZero(x) THEN NaN ELSE Infinity(Sgn(x.n)))
    ELSE IF x.cls = "inf" /\ y.cls = "inf" THEN NaN
    ELSE IF x.cls = "inf" THEN Infinity(x.n * Sgn(y.n))
    ELSE IF y.cls = "inf" THEN Finite(0, 1)
    ELSE Rational(x.n * y.d, x.d * y.n)

\* float.__truediv__
float_truediv(x, y) ==
    IF IsZero(y) THEN Exception("ZeroDivisionError")
    ELSE IF x.cls = "nan" \/ y.cls = "nan" THEN NaN
    ELSE IF x.cls = "inf" /\ y.cls = "inf" THEN NaN
    ELSE IF x.cls = "inf" THEN Infinity(x.n * Sgn(y.n))
    ELSE IF y.cls = "inf" THEN Finite(0, 1)
    ELSE Rational(x.n * y.d, x.d * y.n)

\* getattr(x, op_map[op])(y) for a float x
op_map(op, x, y) ==
    IF y.kind # "float" THEN NotImplemented
    ELSE IF op = <<"+">> THEN float_add(x, y)
    ELSE IF op = <<"-">> THEN float_sub(x, y)
    ELSE IF op = <<"*">> THEN float_mul(x, y)
    ELSE float_truediv(x, y)

(***************************************************************************)
(* getattr(math, name), for the names the inputs of the model can spell:   *)
(* inf and nan are floats, fabs is a function, no other name exists.       *)
(***************************************************************************)
math_getattr(name) ==
    IF name = <<"i", "n", "f">> THEN Infinity(1)
    ELSE IF name = <<"n", "a", "n">> THEN NaN
    ELSE IF name = <<"f", "a", "b", "s">> THEN BuiltinFunction(name)
    ELSE Exception("AttributeError")

\* math.fabs
fabs(x) ==
    IF x.kind # "float" THEN Exception("TypeError")
    ELSE IF x.cls = "finite" THEN Finite(Abs(x.n), x.d)
    ELSE IF x.cls = "inf" THEN Infinity(1)
    ELSE NaN

\* f(x) for the object f that getattr(math, func_name) returned
call(f, x) ==
    IF f.kind # "function" THEN Exception("TypeError")
    ELSE fabs(x)

(***************************************************************************)
(* eval of the four expression classes                                     *)
(***************************************************************************)
\* NumberExpression.eval
NumberExpression_eval(expr) == float(expr[2])

\* ConstantExpression.eval
ConstantExpression_eval(expr) == math_getattr(expr[2])

RECURSIVE eval(_)

\* BinaryExpression.eval
BinaryExpression_eval(expr) ==
    LET x == eval(expr[2])
    IN  IF x.kind = "error" THEN x
        ELSE IF x.kind # "float" THEN Exception("AttributeError")
        ELSE LET y == eval(expr[4])
             IN  IF y.kind = "error" THEN y
                 ELSE op_map(expr[3], x, y)

\* FunctionExpression.eval
FunctionExpression_eval(expr) ==
    LET f == math_getattr(expr[2])
    IN  IF f.kind = "error" THEN f
        ELSE LET x == eval(expr[3])
             IN  IF x.kind = "error" THEN x
                 ELSE call(f, x)

eval(expr) ==
    IF expr[1] = "NumberExpression" THEN NumberExpression_eval(expr)
    ELSE IF expr[1] = "BinaryExpression" THEN BinaryExpression_eval(expr)
    ELSE IF expr[1] = "ConstantExpression" THEN ConstantExpression_eval(expr)
    ELSE FunctionExpression_eval(expr)

(***************************************************************************)
(* The module-level statements: parse_expr(0) of the lexed tokens, then    *)
(* eval of the expression it returned.                                     *)
(***************************************************************************)
Parse ==
    /\ pc = "parse"
    /\ parsed' = parse_expr(0)
    /\ pc' = IF parsed'.ok THEN "eval" ELSE "done"
    /\ UNCHANGED <<string, current_pos, current_type, current_str, result, token_list, value>>

Eval ==
    /\ pc = "eval"
    /\ value' = eval(parsed.expr)
    /\ pc' = "done"
    /\ UNCHANGED <<string, current_pos, current_type, current_str, result, token_list, parsed>>

(***************************************************************************)
(* Spec: every input string of at most MaxLen characters.                  *)
(***************************************************************************)
Init ==
    /\ \E n \in 0..MaxLen : string \in [1..n -> Chars]
    /\ current_pos = 0
    /\ current_type = 0
    /\ current_str = <<>>
    /\ result = <<>>
    /\ token_list = <<>>
    /\ parsed = NotParsed
    /\ value = NoValue
    /\ pc = "lex"

Next == Lex \/ Parse \/ Eval

Spec == Init /\ [][Next]_vars

(***************************************************************************)
(* SpecTok: the parser and the evaluator on every token list of at most    *)
(* MaxTokens tokens that lex returns for the concatenation of the chosen   *)
(* token texts; the state is the one LexReturn leaves for that string.     *)
(***************************************************************************)
TokenTexts == {<<"0">>, <<"2">>, <<"i", "n", "f">>, <<"f", "a", "b", "s">>, <<"f", "o", "o">>,
               <<"-">>, <<"/">>, <<"(">>, <<")">>}

\* the kind lex gives to a token text that is not a '+' or '-'
TextType(text) ==
    IF isnumeric(text[1]) \/ text[1] \in dot_tokens THEN NUMBER
    ELSE IF isalpha(text[1]) THEN CONSTANT_OR_FUNCTION_NAME
    ELSE IF text[1] \in second_priority_tokens THEN SECOND_PRIORITY_OP
    ELSE BRACKET

\* lex of the concatenation of texts, when no two adjacent texts would merge
RECURSIVE Tokenize(_)
Tokenize(texts) ==
    IF texts = <<>> THEN <<>>
    ELSE LET res == Tokenize(SubSeq(texts, 1, Len(texts) - 1))
             text == texts[Len(texts)]
         IN  IF text[1] \in third_priority_tokens
             THEN push(res, SignOrThird(res), text)
             ELSE push(res, TextType(text), text)

\* two adjacent digit runs, or two adjacent names, are one token to lex
Separate(texts) ==
    \A i \in 1..(Len(texts) - 1) :
        \/ texts[i][1] \in third_priority_tokens
        \/ texts[i + 1][1] \in third_priority_tokens
        \/ TextType(texts[i]) # TextType(texts[i + 1])
        \/ TextType(texts[i]) \notin {NUMBER, CONSTANT_OR_FUNCTION_NAME}

RECURSIVE Concat(_)
Concat(texts) ==
    IF texts = <<>> THEN <<>>
    ELSE Concat(SubSeq(texts, 1, Len(texts) - 1)) \o texts[Len(texts)]

\* the state in which lex has returned the tokens of texts
Lexed(texts) ==
    /\ string = Concat(texts)
    /\ current_pos = Len(string)
    /\ current_type = 0
    /\ current_str = <<>>
    /\ result = Tokenize(texts)
    /\ token_list = result
    /\ parsed = NotParsed
    /\ value = NoValue
    /\ pc = "parse"

InitTok ==
    \E n \in 0..MaxTokens : \E texts \in [1..n -> TokenTexts] : Separate(texts) /\ Lexed(texts)

NextTok == Parse \/ Eval

SpecTok == InitTok /\ [][NextTok]_vars

(***************************************************************************)
(* SpecChain: the parser on every bracket-free chain                       *)
(*     [sign] operand (binop [sign] operand)*                              *)
(* of at most MaxOps binary operators; the i-th operand is the digit i.    *)
(***************************************************************************)
DigitChar(i) == <<"0", "1", "2", "3", "4", "5", "6", "7", "8", "9">>[i + 1]

Signs == {<<>>, <<<<"+">>>>, <<<<"-">>>>}
BinOps == {<<"+">>, <<"-">>, <<"*">>, <<"/">>}

RECURSIVE Chains(_)
Chains(k) ==
    IF k = 0 THEN {sg \o <<<<DigitChar(1)>>>> : sg \in Signs}
    ELSE {c \o <<op>> \o sg \o <<<<DigitChar(k + 1)>>>> :
              c \in Chains(k - 1), op \in BinOps, sg \in Signs}

InitChain == \E k \in 0..MaxOps : \E texts \in Chains(k) : Lexed(texts)

NextChain == Parse

SpecChain == InitChain /\ [][NextChain]_vars

(***************************************************************************)
(* Properties of the parser on operator chains (SpecChain).                *)
(***************************************************************************)
Max(S) == CHOOSE x \in S : \A y \in S : y <= x

\* the reference grouping of a bracket-free chain: split at the last binary
\* '+' or '-', else at the last '*' or '/', else a sign with its one operand
RECURSIVE Grouping(_)
Grouping(toks) ==
    LET third == {i \in 1..Len(toks) : toks[i].token_type = THIRD_PRIORITY_OP}
        second == {i \in 1..Len(toks) : toks[i].token_type = SECOND_PRIORITY_OP}
        split(i) == BinaryExpression(Grouping(SubSeq(toks, 1, i - 1)), toks[i].token_str,
                                     Grouping(SubSeq(toks, i + 1, Len(toks))))
    IN  IF third # {} THEN split(Max(third))
        ELSE IF second # {} THEN split(Max(second))
        ELSE IF toks[1].token_type = SIGN
             THEN BinaryExpression(NumberExpression(<<"0">>), toks[1].token_str, Grouping(Tail(toks)))
        ELSE NumberExpression(toks[1].token_str)

SignPositions == {p \in 0..(Len(token_list) - 1) : TokenAt(p).token_type = SIGN}

\* C1: on a chain operand (binop operand)* without signs, parse_expr(0)
\* returns the grouping in which '*' and '/' bind tighter than binary '+'
\* and '-' and each tier associates left-to-right.
C1_PrecedenceGrouping ==
    (pc # "parse" /\ SignPositions = {}) =>
        /\ parsed.ok
        /\ parsed.expr = Grouping(token_list)

\* 1+2*3*4 has been parsed as 1+((2*3)*4)
C1_Witness ==
    /\ pc = "eval"
    /\ string = <<"1", "+", "2", "*", "3", "*", "4">>
    /\ parsed.expr =
         BinaryExpression(NumberExpression(<<"1">>), <<"+">>,
            BinaryExpression(
               BinaryExpression(NumberExpression(<<"2">>), <<"*">>, NumberExpression(<<"3">>)),
               <<"*">>, NumberExpression(<<"4">>)))

\* C2: a Sign token applies to the one first-priority term after it:
\* parse_sign(p) is BinaryExpression(0, sign, term) of length term length + 1
\* with term = parse_first_priority(p + 1), and in a chain with signs the
\* signed term as a whole is the operand of the operators around it.
C2_SignBindsOneTerm ==
    (pc # "parse" /\ SignPositions # {}) =>
        /\ parsed.ok
        /\ parsed.expr = Grouping(token_list)
        /\ \A p \in SignPositions :
              LET term == parse_first_priority(p + 1)
                  signed == parse_sign(p)
              IN  /\ term.ok /\ signed.ok
                  /\ term.length = 1
                  /\ signed.length = term.length + 1
                  /\ signed.expr = BinaryExpression(NumberExpression(<<"0">>),
                                                    TokenAt(p).token_str, term.expr)

\* 1*-2*3 has been parsed as (1*(0-2))*3
C2_Witness ==
    /\ pc = "eval"
    /\ string = <<"1", "*", "-", "2", "*", "3">>
    /\ parsed.expr =
         BinaryExpression(
            BinaryExpression(NumberExpression(<<"1">>), <<"*">>,
               BinaryExpression(NumberExpression(<<"0">>), <<"-">>, NumberExpression(<<"2">>))),
            <<"*">>, NumberExpression(<<"3">>))

(***************************************************************************)
(* Properties of bracket matching and of the consumed length (Spec).       *)
(***************************************************************************)
\* C3: when parse_expr(0) starts at a bracket and returns, the token after
\* the inner expression exists and is the right bracket that closes it.
C3_ClosingBracketRequired ==
    (pc \in {"eval", "done"} /\ parsed.ok /\ token_list # <<>>
        /\ TokenAt(0).token_type = BRACKET) =>
        LET inner == parse_expr(1)
        IN  /\ InRange(inner.length + 1)
            /\ is_right_bracket(TokenAt(inner.length + 1))

\* C4: when parse_expr(0) returns, the length it returns is the number of
\* tokens of the list.
C4_LengthIsTokenCount ==
    (pc \in {"eval", "done"} /\ parsed.ok) => parsed.length = Len(token_list)

(***************************************************************************)
(* Properties of the evaluator (SpecTok).                                  *)
(***************************************************************************)
\* C5: eval returns a float or raises, and eval of a ConstantExpression
\* returns a float exactly when its name is a float constant of math.
C5_ConstantIsNumberOrError ==
    (pc = "done" /\ parsed.ok) =>
        /\ value.kind \in {"float", "error"}
        /\ parsed.expr[1] = "ConstantExpression" =>
              (value.kind = "float" <=>
                  parsed.expr[2] \in {<<"i", "n", "f">>, <<"n", "a", "n">>})

RECURSIVE RaisesThrough(_)
RaisesThrough(expr) ==
    IF expr[1] = "BinaryExpression"
    THEN LET x == eval(expr[2])
             y == eval(expr[4])
         IN  /\ RaisesThrough(expr[2])
             /\ RaisesThrough(expr[4])
             /\ (x.kind = "error" \/ y.kind = "error") => eval(expr).kind = "error"
             /\ (expr[3] = <<"/">> /\ y.kind = "float" /\ IsZero(y)) =>
                   /\ eval(expr).kind = "error"
                   /\ x.kind = "float" => eval(expr).err = "ZeroDivisionError"
    ELSE IF expr[1] = "FunctionExpression"
    THEN /\ RaisesThrough(expr[3])
         /\ eval(expr[3]).kind = "error" => eval(expr).kind = "error"
    ELSE TRUE

SignificantChars ==
    Digits \cup Letters \cup dot_tokens \cup third_priority_tokens
        \cup second_priority_tokens \cup bracket_tokens

Significant(s) == SelectSeq(s, LAMBDA c : c \in SignificantChars)

RECURSIVE Texts(_)
Texts(toks) ==
    IF toks = <<>> THEN <<>>
    ELSE Texts(SubSeq(toks, 1, Len(toks) - 1)) \o toks[Len(toks)].token_str

\* C7: a '+' or '-' adds exactly one one-character token after the open
\* Number or name is flushed; it is a Sign iff nothing was emitted before it
\* or the last emitted token is a second- or third-priority operator, and a
\* third-priority operator otherwise.
C7_SignClassification ==
    [][(pc = "lex" /\ current_pos < Len(string)
           /\ string[current_pos + 1] \in {"+", "-"}) =>
        LET flushed == IF current_type \in {NUMBER, CONSTANT_OR_FUNCTION_NAME}
                       THEN Append(result, [token_str |-> current_str, token_type |-> current_type])
                       ELSE result
            last == flushed[Len(flushed)]
            emitted == result'[Len(result')]
        IN  /\ Len(result') = Len(flushed) + 1
            /\ SubSeq(result', 1, Len(flushed)) = flushed
            /\ emitted.token_str = <<string[current_pos + 1]>>
            /\ emitted.token_type \in {SIGN, THIRD_PRIORITY_OP}
            /\ emitted.token_type = SIGN <=>
                  (flushed = <<>> \/ last.token_type \in {SECOND_PRIORITY_OP, THIRD_PRIORITY_OP})
            /\ current_type' = 0
    ]_vars

\* -2*-2 has been scanned up to its second '-': a leading Sign, and a Sign
\* after the '*'
C7_Witness ==
    /\ pc = "lex"
    /\ current_pos = 4
    /\ SubSeq(string, 1, 4) = <<"-", "2", "*", "-">>
    /\ Len(result) = 4
    /\ result[1].token_type = SIGN
    /\ result[3].token_type = SECOND_PRIORITY_OP
    /\ result[4] = [token_str |-> <<"-">>, token_type |-> SIGN]

\* C8: a character outside the lexing rules closes the open token, so no
\* token joins characters from both sides of it: every token text is a
\* contiguous piece of the input.
C8_OtherCharacterCloses ==
    pc # "lex" =>
        \A k \in 1..Len(token_list) :
            \E i \in 1..Len(string) : \E j \in i..Len(string) :
                SubSeq(string, i, j) = token_list[k].token_str

\* C9: the emitted token texts followed by the open accumulator are the
\* significant characters of the prefix scanned so far, the texts of the
\* returned tokens are those of the whole input, and no token text is empty.
C9_TextsReconstructInput ==
    /\ pc = "lex" =>
          Texts(result) \o current_str = Significant(SubSeq(string, 1, current_pos))
    /\ pc # "lex" => Texts(token_list) = Significant(string)
    /\ \A k \in 1..Len(result) : result[k].token_str # <<>>
    /\ \A k \in 1..Len(token_list) : token_list[k].token_str # <<>>

\* "-2 x" has been lexed: the Sign, the Number and the name, without the space
C9_Witness ==
    /\ pc = "parse"
    /\ string = <<"-", "2", " ", "x">>
    /\ Len(token_list) = 3
    /\ Texts(token_list) = <<"-", "2", "x">>

\* C10: a '+' or '-' right after a left bracket that opens the input, or
\* that follows the name opening the input, is lexed as a third-priority
\* operator, and parse_expr(0) raises ValueError.
C10_SignAfterBracketRejected ==
    LET open == IF string # <<>> /\ isalpha(string[1])
                THEN 1 + Len(token_list[1].token_str)
                ELSE 1
    IN  (pc \in {"eval", "done"} /\ Len(string) > open
            /\ string[open] = "(" /\ string[open + 1] \in {"+", "-"}) =>
            /\ \E k \in 1..(Len(token_list) - 1) :
                  /\ is_left_bracket(token_list[k])
                  /\ token_list[k + 1].token_type = THIRD_PRIORITY_OP
            /\ ~parsed.ok
            /\ parsed.err = "ValueError"

\* (-2) has been rejected
C10_Witness ==
    /\ pc = "done"
    /\ string = <<"(", "-", "2", ")">>
    /\ token_list[2] = [token_str |-> <<"-">>, token_type |-> THIRD_PRIORITY_OP]
    /\ parsed.err = "ValueError"

====
